---------------------------- MODULE Spec2Model ----------------------------
(***************************************************************************)
(* veeam-monitor (src/main.go): a poll / classify / notify loop.           *)
(*                                                                         *)
(* Text.  A Go string is modelled as a sequence of symbols.  Each of the   *)
(* characters the code inspects (comma, double quote, period, newline,     *)
(* carriage return, space) is a symbol of its own; a maximal run of any    *)
(* other characters is one symbol ("JobA", "Failed", "45").  strings.Split,*)
(* strings.Trim and strings.TrimSpace only ever look at the former, so     *)
(* they are modelled symbol by symbol exactly as they work byte by byte.   *)
(***************************************************************************)
EXTENDS Integers, Sequences, FiniteSets, TLC

VARIABLES
    pc,              \* position of main (or of the function under study)
    flags,           \* command-line flags after flag.Parse
    cfgFile,         \* what loadConfig found on disk
    config,          \* *Config used by main
    logWriter,       \* the writers behind the log package's output
    logFileOpen,     \* whether setupLogging returned an open *os.File
    lastLog,         \* the last log.Printf / log.Println: event and sinks
    problematicJobs, \* main's problematicJobs slice
    results,         \* this iteration's failedJobs/warningJobs/longRunningJobs, err
    sendCalls,       \* calls of sendEmailAlert in this iteration
    sent,            \* argument of this iteration's sendEmailAlert call
    lastSent,        \* argument of the latest call of an earlier iteration
    email,           \* what sendEmailAlert built (subject, body) or its panic
    psOutput,        \* string(output) handed to parseJobStatusOutput
    psStatus,        \* the status argument of parseJobStatusOutput
    parsed           \* the []JobStatus parseJobStatusOutput returned

vars == << pc, flags, cfgFile, config, logWriter, logFileOpen, lastLog,
           problematicJobs, results, sendCalls, sent, lastSent, email,
           psOutput, psStatus, parsed >>

---------------------------------------------------------------------------
(* Bounds of the model. *)

\* data lines (after the header) of a text handed to the parser
MaxLines == 3
\* records in a sequence handed to sendEmailAlert on its own
MaxJobs == 3

---------------------------------------------------------------------------
(* Symbols *)

COMMA == ","
QUOTE == "\""
DOT   == "."
NL    == "\n"
CR    == "\r"
SP    == " "

\* unicode.IsSpace, restricted to the white space of the model's alphabet
IsSpace(c) == c \in {SP, CR, NL}

None == "none"

---------------------------------------------------------------------------
(* strings.Split(s, sep) for a one-character separator: the pieces between *)
(* the occurrences of sep, always at least one piece.                      *)

RECURSIVE Split(_, _)
Split(s, sep) ==
    IF \A i \in 1..Len(s) : s[i] # sep
    THEN << s >>
    ELSE LET i == CHOOSE k \in 1..Len(s) :
                     s[k] = sep /\ \A j \in 1..(k - 1) : s[j] # sep
         IN  << SubSeq(s, 1, i - 1) >> \o Split(SubSeq(s, i + 1, Len(s)), sep)

\* strings.Trim(s, "\""): all leading and trailing double quotes removed
RECURSIVE TrimQuotes(_)
TrimQuotes(s) ==
    IF s = << >> THEN s
    ELSE IF Head(s) = QUOTE THEN TrimQuotes(Tail(s))
    ELSE IF s[Len(s)] = QUOTE THEN TrimQuotes(SubSeq(s, 1, Len(s) - 1))
    ELSE s

\* strings.TrimSpace(s)
RECURSIVE TrimSpace(_)
TrimSpace(s) ==
    IF s = << >> THEN s
    ELSE IF IsSpace(Head(s)) THEN TrimSpace(Tail(s))
    ELSE IF IsSpace(s[Len(s)]) THEN TrimSpace(SubSeq(s, 1, Len(s) - 1))
    ELSE s

---------------------------------------------------------------------------
(* parseJobStatusOutput *)

\* the JobStatus literal built from the fields of one line
JobFromFields(fields) ==
    [ Name        |-> TrimQuotes(fields[1]),
      Status      |-> TrimQuotes(fields[2]),
      StartTime   |-> TrimQuotes(fields[3]),
      EndTime     |-> TrimQuotes(fields[4]),
      Description |-> TrimQuotes(fields[5]),
      Duration    |-> IF Len(fields) >= 6 THEN TrimQuotes(fields[6]) ELSE << >> ]

\* EnoughFields with the fault "len(fields) > 5"
EnoughFieldsStrict(fields) == Len(fields) > 5

\* if len(fields) >= 5
EnoughFields(fields) == Len(fields) >= 5

\* the for loop over lines[i], i = 1 .. len(lines)-1 (0-based), i.e. the
\* 1-based indices 2 .. Len(lines)
RECURSIVE ParseLoop(_, _, _)
ParseLoop(lines, i, jobs) ==
    IF i > Len(lines) THEN jobs
    ELSE LET line   == TrimSpace(lines[i])
             fields == Split(line, COMMA)
         IN  IF line = << >>
             THEN ParseLoop(lines, i + 1, jobs)
             ELSE IF EnoughFields(fields)
                  THEN ParseLoop(lines, i + 1, Append(jobs, JobFromFields(fields)))
                  ELSE ParseLoop(lines, i + 1, jobs)

\* parseJobStatusOutput(output, status); the error it returns is always nil,
\* and the status argument is never read
parseJobStatusOutput(output, status) ==
    LET lines == Split(output, NL)
    IN  IF Len(lines) < 2 THEN << >> ELSE ParseLoop(lines, 2, << >>)

---------------------------------------------------------------------------
(* Config, loadConfig and the command-line overrides of main *)

DefaultCheckInterval == 15
DefaultThreshold     == 120
DefaultSMTPPort      == 25
DefaultModule        == "Veeam.Backup.PowerShell"

\* the zero value of Config: what json.Unmarshal leaves for a key the file omits
ZeroConfig ==
    [ VeeamPowerShellModule |-> "",
      VeeamServerAddress    |-> "",
      CheckIntervalMinutes  |-> 0,
      SMTPServer            |-> "",
      SMTPPort              |-> 0,
      EmailFrom             |-> "",
      EmailTo               |-> << >>,
      EmailPassword         |-> "",
      MonitorFailedJobs     |-> FALSE,
      MonitorWarningJobs    |-> FALSE,
      MonitorRunningJobs    |-> FALSE,
      LongRunningThreshold  |-> 0 ]

ConfigKeys == DOMAIN ZeroConfig

\* json.Unmarshal(data, &config) into a zero Config: a JSON object is the
\* function from the keys it holds to their values
Unmarshal(json) ==
    [ k \in ConfigKeys |-> IF k \in DOMAIN json THEN json[k] ELSE ZeroConfig[k] ]

\* FixInterval with the fault of a missing floor
FixIntervalNever(c) == c

\* if config.CheckIntervalMinutes < 1 { config.CheckIntervalMinutes = 15 }
FixInterval(c) ==
    IF c.CheckIntervalMinutes < 1
    THEN [c EXCEPT !.CheckIntervalMinutes = DefaultCheckInterval]
    ELSE c

\* if no monitoring option is enabled, enable failed-job monitoring
FixMonitors(c) ==
    IF ~c.MonitorFailedJobs /\ ~c.MonitorWarningJobs /\ ~c.MonitorRunningJobs
    THEN [c EXCEPT !.MonitorFailedJobs = TRUE]
    ELSE c

\* if config.LongRunningThreshold < 1 { config.LongRunningThreshold = 120 }
FixThreshold(c) ==
    IF c.LongRunningThreshold < 1
    THEN [c EXCEPT !.LongRunningThreshold = DefaultThreshold]
    ELSE c

\* loadConfig(filePath).  file.ok is FALSE when the file cannot be read or is
\* not valid JSON for a Config; the result then carries the error.
loadConfig(file) ==
    IF ~file.ok
    THEN [ err |-> TRUE, config |-> ZeroConfig ]
    ELSE [ err |-> FALSE,
           config |-> FixThreshold(FixMonitors(FixInterval(Unmarshal(file.json)))) ]

\* the &Config{...} literal main builds when loadConfig failed
DefaultConfig ==
    [ ZeroConfig EXCEPT !.VeeamPowerShellModule = DefaultModule,
                        !.CheckIntervalMinutes  = DefaultCheckInterval,
                        !.SMTPPort              = DefaultSMTPPort,
                        !.MonitorFailedJobs     = TRUE,
                        !.LongRunningThreshold  = DefaultThreshold ]

\* "Override config with command-line parameters if provided": a flag left
\* at its default "" changes nothing
ApplyFlags(c, f) ==
    [ c EXCEPT
        !.VeeamServerAddress = IF f.veeamserver # "" THEN f.veeamserver ELSE @,
        !.EmailFrom          = IF f.from # ""        THEN f.from        ELSE @,
        !.EmailPassword      = IF f.password # ""    THEN f.password    ELSE @,
        !.EmailTo            = IF f.to # ""          THEN << f.to >>    ELSE @,
        !.SMTPServer         = IF f.smtp # ""        THEN f.smtp        ELSE @ ]

NoFlags == [ veeamserver |-> "", from |-> "", password |-> "", to |-> "", smtp |-> "" ]

---------------------------------------------------------------------------
(* Logging *)

\* the log package writes to os.Stderr until log.SetOutput is called
StderrOnly == { "stderr" }

\* multiWriter := os.Stdout; log.SetOutput(multiWriter)
MultiWriter == { "stdout" }

Console == { "stdout", "stderr" }

\* one log.Printf / log.Println: the event and the sinks that received it
Log(event) == [ event |-> event, sinks |-> logWriter ]

NoLog == [ event |-> None, sinks |-> {} ]

---------------------------------------------------------------------------
(* The external queries *)

FailedS  == << "Failed" >>
WarningS == << "Warning" >>
RunningS == << "Running" >>

\* getJobsByStatus(config, status).  ps is what cmd.CombinedOutput returned:
\* its error and the combined output.
getJobsByStatus(c, status, ps) ==
    IF ps.err
    THEN [ err |-> TRUE,  jobs |-> << >> ]
    ELSE [ err |-> FALSE, jobs |-> parseJobStatusOutput(ps.output, status) ]

\* the description getLongRunningJobs writes:
\* fmt.Sprintf("Long-running job (over %d minutes): %s", threshold, description)
LongRunningDescription(threshold, description) ==
    << "Long-running job (over ", ToString(threshold), " minutes): " >> \o description

\* getLongRunningJobs(config)
getLongRunningJobs(c, ps) ==
    IF ps.err
    THEN [ err |-> TRUE, jobs |-> << >> ]
    ELSE LET jobs == parseJobStatusOutput(ps.output, RunningS)
         IN  [ err  |-> FALSE,
               jobs |-> [ i \in 1..Len(jobs) |->
                            [ jobs[i] EXCEPT !.Description =
                                LongRunningDescription(c.LongRunningThreshold, @) ] ] ]

---------------------------------------------------------------------------
(* sendEmailAlert: the digest *)

\* the jobs of one status, in input order (the switch on job.Status)
Group(jobs, status) == SelectSeq(jobs, LAMBDA j : j.Status = status)

\* strings.Split(job.Duration, ".")[1] is evaluated for every non-empty
\* duration: an index out of range, a run-time panic, without a period
DurationPanics(job) ==
    job.Duration # << >> /\ Len(Split(job.Duration, DOT)) < 2

\* durationText
DurationText(job) ==
    IF job.Duration # << >>
    THEN << " (Running for " >> \o Split(job.Duration, DOT)[1] \o << " minutes)" >>
    ELSE << >>

\* one "Job: ...\nStatus: ...\nStart Time: ...\nEnd Time: ...\nDescription: ..." block
JobBlock(job) ==
    [ line |-> "job", Name |-> job.Name, Status |-> job.Status, Suffix |-> << >>,
      StartTime |-> job.StartTime, EndTime |-> job.EndTime,
      Description |-> job.Description ]

\* the block of a running job: the status carries durationText, no end time
RunningBlock(job) ==
    [ line |-> "job", Name |-> job.Name, Status |-> job.Status,
      Suffix |-> DurationText(job),
      StartTime |-> job.StartTime, EndTime |-> << >>,
      Description |-> job.Description ]

SectionHeader(title, n) == [ line |-> "header", section |-> title, count |-> n ]

\* one section: nothing for an empty group, else the header and the blocks
\* (len(group) is the number of blocks)
Section(title, blocks) ==
    IF Len(blocks) > 0
    THEN << SectionHeader(title, Len(blocks)) >> \o blocks
    ELSE << >>

\* the blocks of a group, one per job, in the group's order
JobBlocks(group)     == [ i \in 1..Len(group) |-> JobBlock(group[i]) ]
RunningBlocks(group) == [ i \in 1..Len(group) |-> RunningBlock(group[i]) ]

\* the body: title, the three sections in the order of the source, footer
Body(jobs) ==
    << [ line |-> "title" ] >>
    \o Section("FAILED JOBS", JobBlocks(Group(jobs, FailedS)))
    \o Section("WARNING JOBS", JobBlocks(Group(jobs, WarningS)))
    \o Section("LONG-RUNNING JOBS", RunningBlocks(Group(jobs, RunningS)))
    \o << [ line |-> "footer" ] >>

NoEmail == [ state |-> None, subject |-> 0, body |-> << >> ]

\* sendEmailAlert up to smtp.SendMail: the subject (its count) and the body,
\* or the panic of the duration rendering
BuildEmail(jobs) ==
    IF \E i \in 1..Len(jobs) : jobs[i].Status = RunningS /\ DurationPanics(jobs[i])
    THEN [ state |-> "panic", subject |-> Len(jobs), body |-> << >> ]
    ELSE [ state |-> "built", subject |-> Len(jobs), body |-> Body(jobs) ]

---------------------------------------------------------------------------
(* The texts the external commands return.  ConvertTo-Csv writes a header  *)
(* line and one line per job, every field in double quotes, lines ended by *)
(* CR LF.                                                                  *)

Q(x) == << QUOTE >> \o x \o << QUOTE >>

RECURSIVE Join(_, _)
Join(parts, sep) ==
    IF parts = << >> THEN << >>
    ELSE IF Len(parts) = 1 THEN parts[1]
    ELSE parts[1] \o << sep >> \o Join(Tail(parts), sep)

CsvRow(fields) == Join([ i \in 1..Len(fields) |-> Q(fields[i]) ], COMMA) \o << CR >>

StatusHeader ==
    CsvRow(<< <<"Name">>, <<"LastResult">>, <<"LastStart">>, <<"LastEnd">>,
              <<"Description">> >>)
RunningHeader ==
    CsvRow(<< <<"Name">>, <<"Status">>, <<"StartTime">>, <<"EndTime">>,
              <<"Description">>, <<"Duration">> >>)

StatusRow(name, status) ==
    CsvRow(<< name, status, <<"t1">>, <<"t2">>, <<"Disk", SP, "full">> >>)
RunningRow(name, duration) ==
    CsvRow(<< name, RunningS, <<"t1">>, <<"N/A">>, <<"Currently", SP, "running">>,
              duration >>)

\* a text of lines, each already ended by CR, LF after each
Text(lines) == Join(lines, NL) \o (IF lines = << >> THEN << >> ELSE << NL >>)

PsErr == [ err |-> TRUE, output |-> << >> ]
PsOk(output) == [ err |-> FALSE, output |-> output ]

\* what the query for LastResult = status may return: a failure of the
\* command, no job (no output at all), one job, two jobs
StatusQueryResults(status) ==
    { PsErr,
      PsOk(<< >>),
      PsOk(Text(<< StatusHeader, StatusRow(<<"JobA">>, status) >>)),
      PsOk(Text(<< StatusHeader, StatusRow(<<"JobA">>, status),
                   StatusRow(<<"JobB">>, status) >>)) }

\* what the long-running query may return.  TotalMinutes is a double:
\* "130.5" as a rule, "130" for a whole number of minutes, and "130,5" where
\* the culture's decimal separator is a comma.
RunningQueryResults ==
    { PsErr,
      PsOk(<< >>),
      PsOk(Text(<< RunningHeader, RunningRow(<<"JobR">>, <<"130", DOT, "5">>) >>)),
      PsOk(Text(<< RunningHeader, RunningRow(<<"JobR">>, <<"130">>) >>)),
      PsOk(Text(<< RunningHeader, RunningRow(<<"JobR">>, <<"130", COMMA, "5">>) >>)) }

\* what the two getJobsByStatus calls of main may be answered
FailedQueryResults  == StatusQueryResults(FailedS)
WarningQueryResults == StatusQueryResults(WarningS)

\* the least environment that still reports a job
FewStatusResults(status) ==
    { PsOk(Text(<< StatusHeader, StatusRow(<<"JobA">>, status) >>)) }
FewRunningResults == { PsErr }
FewFailedResults  == FewStatusResults(FailedS)
FewWarningResults == FewStatusResults(WarningS)

---------------------------------------------------------------------------
(* Configuration files and command lines *)

\* the JSON objects holding key k with one of the values vs, or not at all
Opt(k, vs) == { << >> } \cup { k :> v : v \in vs }

\* strings a file may supply, all or none
FileStrings ==
    { << >>,
      [ VeeamServerAddress |-> "file-veeam", SMTPServer |-> "file-smtp",
        EmailFrom |-> "file-from", EmailTo |-> << "file-to" >>,
        EmailPassword |-> "file-pw" ] }

FileModulePort ==
    { << >>, [ VeeamPowerShellModule |-> "Custom.Module", SMTPPort |-> 587 ] }

\* the files of SpecConfig: every combination of settings given or omitted
AllFiles ==
    { [ ok |-> FALSE, json |-> << >> ] } \cup
    { [ ok |-> TRUE, json |-> a @@ b @@ c @@ d @@ e @@ f @@ g ] :
        a \in Opt("CheckIntervalMinutes", { 0, 30 }),
        b \in Opt("LongRunningThreshold", { -5, 60 }),
        c \in Opt("MonitorFailedJobs", BOOLEAN),
        d \in Opt("MonitorWarningJobs", { TRUE }),
        e \in Opt("MonitorRunningJobs", { TRUE }),
        f \in FileModulePort,
        g \in FileStrings }

AllFlags ==
    { NoFlags,
      [ NoFlags EXCEPT !.from = "cli-from", !.to = "cli-to" ],
      [ veeamserver |-> "cli-veeam", from |-> "cli-from", password |-> "cli-pw",
        to |-> "cli-to", smtp |-> "cli-smtp" ] }

\* the files of Spec: none, the README's example, an empty
\* object, warnings and long-running jobs only
ReadmeJson ==
    [ VeeamPowerShellModule |-> DefaultModule, VeeamServerAddress |-> "localhost",
      CheckIntervalMinutes |-> 15, SMTPServer |-> "localhost", SMTPPort |-> 25,
      EmailFrom |-> "veeam-monitor@example.com", EmailTo |-> << "admin@example.com" >>,
      EmailPassword |-> "", MonitorFailedJobs |-> TRUE, MonitorWarningJobs |-> TRUE,
      MonitorRunningJobs |-> TRUE, LongRunningThreshold |-> 120 ]

FewFiles ==
    { [ ok |-> FALSE, json |-> << >> ],
      [ ok |-> TRUE, json |-> ReadmeJson ],
      [ ok |-> TRUE, json |-> << >> ],
      [ ok |-> TRUE, json |-> [ MonitorWarningJobs |-> TRUE, MonitorRunningJobs |-> TRUE ] ] }

FewFlags == { NoFlags }

---------------------------------------------------------------------------
(* main *)

NoResult  == [ state |-> None, jobs |-> << >> ]
NoResults == [ Failed |-> NoResult, Warning |-> NoResult, Running |-> NoResult ]

\* what a query's (jobs, err) leaves in main's locals
ResultOf(r) == [ state |-> IF r.err THEN "error" ELSE "ok", jobs |-> r.jobs ]

\* Merge with the fault that an error of one query discards what the others
\* contributed
MergeOrReset(jobs, r) == IF r.err THEN << >> ELSE jobs \o r.jobs

\* if err != nil { log } else { problematicJobs = append(problematicJobs, jobs...) }
Merge(jobs, r) == IF r.err THEN jobs ELSE jobs \o r.jobs

\* FreshJobs with the fault that the slice is declared outside the loop
CarriedJobs == problematicJobs

\* var problematicJobs []JobStatus, inside the loop body
FreshJobs == << >>

\* ShouldSend with the fault that the alert is sent on every cycle
ShouldSendAlways(jobs) == TRUE

\* if len(problematicJobs) > 0
ShouldSend(jobs) == Len(jobs) > 0

InitWith(Files, Flags) ==
    /\ pc = "start"
    /\ flags \in Flags
    /\ cfgFile \in Files
    /\ config = ZeroConfig
    /\ logWriter = StderrOnly
    /\ logFileOpen = FALSE
    /\ lastLog = NoLog
    /\ problematicJobs = << >>
    /\ results = NoResults
    /\ sendCalls = 0
    /\ sent = << >>
    /\ lastSent = << >>
    /\ email = NoEmail
    /\ psOutput = << >>
    /\ psStatus = << >>
    /\ parsed = << >>

\* setupLogging and main's handling of its error
SetupLogging ==
    /\ pc = "start"
    /\ \E ok \in BOOLEAN :
         IF ok
         THEN /\ logWriter' = MultiWriter
              /\ logFileOpen' = TRUE
              /\ lastLog' = lastLog
         ELSE /\ logWriter' = logWriter
              /\ logFileOpen' = FALSE
              /\ lastLog' = Log("logging-error")
    /\ pc' = "load"
    /\ UNCHANGED << flags, cfgFile, config, problematicJobs, results, sendCalls,
                    sent, lastSent, email, psOutput, psStatus, parsed >>

\* config, err := loadConfig(*configFile), and the defaults on an error
LoadConfig ==
    /\ pc = "load"
    /\ LET r == loadConfig(cfgFile)
       IN  /\ config' = IF r.err THEN DefaultConfig ELSE r.config
           /\ lastLog' = IF r.err THEN Log("config-error")
                         ELSE IF r.config # Unmarshal(cfgFile.json)
                              THEN Log("config-warning")
                              ELSE lastLog
    /\ pc' = "flags"
    /\ UNCHANGED << flags, cfgFile, logWriter, logFileOpen, problematicJobs,
                    results, sendCalls, sent, lastSent, email, psOutput,
                    psStatus, parsed >>

\* the command-line overrides, the validation warnings, "Starting ..."
OverrideFlags ==
    /\ pc = "flags"
    /\ config' = ApplyFlags(config, flags)
    /\ lastLog' = Log("starting")
    /\ pc' = "checking"
    /\ UNCHANGED << flags, cfgFile, logWriter, logFileOpen, problematicJobs,
                    results, sendCalls, sent, lastSent, email, psOutput,
                    psStatus, parsed >>

\* the top of the for loop
BeginCheck ==
    /\ pc = "checking"
    /\ lastLog' = Log("checking")
    /\ problematicJobs' = FreshJobs
    /\ results' = NoResults
    /\ sendCalls' = 0
    /\ sent' = << >>
    /\ lastSent' = IF sendCalls > 0 THEN sent ELSE lastSent
    /\ email' = NoEmail
    /\ pc' = "failed"
    /\ UNCHANGED << flags, cfgFile, config, logWriter, logFileOpen, psOutput,
                    psStatus, parsed >>

\* one "if config.MonitorX { jobs, err := query; ... }" block
\* Returns: the (jobs, err) pairs the query may return
CheckCategory(enabled, field, Returns, next) ==
    /\ IF enabled
       THEN \E r \in Returns :
              /\ results' = [ results EXCEPT ![field] = ResultOf(r) ]
              /\ problematicJobs' = Merge(problematicJobs, r)
              /\ lastLog' = Log(IF r.err THEN "query-error" ELSE "found")
       ELSE UNCHANGED << results, problematicJobs, lastLog >>
    /\ pc' = next
    /\ UNCHANGED << flags, cfgFile, config, logWriter, logFileOpen, sendCalls,
                    sent, lastSent, email, psOutput, psStatus, parsed >>

CheckFailed(Outputs) ==
    /\ pc = "failed"
    /\ CheckCategory(config.MonitorFailedJobs, "Failed",
                     { getJobsByStatus(config, FailedS, ps) : ps \in Outputs },
                     "warning")

CheckWarning(Outputs) ==
    /\ pc = "warning"
    /\ CheckCategory(config.MonitorWarningJobs, "Warning",
                     { getJobsByStatus(config, WarningS, ps) : ps \in Outputs },
                     "running")

CheckRunning(Outputs) ==
    /\ pc = "running"
    /\ CheckCategory(config.MonitorRunningJobs, "Running",
                     { getLongRunningJobs(config, ps) : ps \in Outputs },
                     "notify")

\* "Send email notifications if there are problematic jobs": the call of
\* sendEmailAlert, which panics or returns what smtp.SendMail returned
Notify ==
    /\ pc = "notify"
    /\ IF ShouldSend(problematicJobs)
       THEN /\ sendCalls' = sendCalls + 1
            /\ sent' = problematicJobs
            /\ email' = BuildEmail(problematicJobs)
            /\ IF email'.state = "panic"
               THEN /\ pc' = "panicked"
                    /\ lastLog' = lastLog
               ELSE /\ pc' = "sleep"
                    /\ \E smtpErr \in BOOLEAN :
                         lastLog' = Log(IF smtpErr THEN "email-error" ELSE "email-sent")
       ELSE /\ lastLog' = Log("no-problems")
            /\ pc' = "sleep"
            /\ UNCHANGED << sendCalls, sent, email >>
    /\ UNCHANGED << flags, cfgFile, config, logWriter, logFileOpen,
                    problematicJobs, results, lastSent, psOutput, psStatus, parsed >>

\* "Sleeping for %d minutes until next check", time.Sleep, the next iteration
Sleep ==
    /\ pc = "sleep"
    /\ lastLog' = Log("sleeping")
    /\ pc' = "checking"
    /\ UNCHANGED << flags, cfgFile, config, logWriter, logFileOpen,
                    problematicJobs, results, sendCalls, sent, lastSent, email,
                    psOutput, psStatus, parsed >>

Init == InitWith(FewFiles, FewFlags)

Next ==
    \/ SetupLogging
    \/ LoadConfig
    \/ OverrideFlags
    \/ BeginCheck
    \/ CheckFailed(FailedQueryResults)
    \/ CheckWarning(WarningQueryResults)
    \/ CheckRunning(RunningQueryResults)
    \/ Notify
    \/ Sleep

Spec == Init /\ [][Next]_vars

\* startup under every file and command line, with the least environment
InitConfig == InitWith(AllFiles, AllFlags)

NextConfig ==
    \/ SetupLogging
    \/ LoadConfig
    \/ OverrideFlags
    \/ BeginCheck
    \/ CheckFailed(FewFailedResults)
    \/ CheckWarning(FewWarningResults)
    \/ CheckRunning(FewRunningResults)
    \/ Notify
    \/ Sleep

SpecConfig == InitConfig /\ [][NextConfig]_vars

---------------------------------------------------------------------------
(* parseJobStatusOutput on its own *)

SeqsUpTo(S, n) == UNION { [ 1..k -> S ] : k \in 0..n }

\* lines a text may hold after its first: well-formed rows of 5 and of 6
\* fields, a row of 4 fields, a row whose name holds a comma, an unquoted
\* row with leading blanks, five empty fields, a message of the command,
\* an empty line, a line of blanks
LineSamples ==
    { StatusRow(<<"JobA">>, FailedS),
      RunningRow(<<"JobR">>, <<"130", DOT, "5">>),
      Join(<< Q(<<"x">>), Q(<<"y">>), Q(<<"z">>), Q(<<"w">>) >>, COMMA) \o << CR >>,
      StatusRow(<<"Job", COMMA, "B">>, WarningS),
      << SP, "a", COMMA, "b", COMMA, "c", COMMA, "d", COMMA, "e", SP >>,
      << COMMA, COMMA, COMMA, COMMA >>,
      << "WARNING:", SP, "slow" >>,
      << >>,
      << SP, SP, CR >> }

\* first lines: the header, a row where the header should be, nothing, blanks
FirstLines == { StatusHeader, StatusRow(<<"Job0">>, FailedS), << >>, << SP, SP >> }

ParseInputs ==
    { Join(<< first >> \o rest, NL) :
        first \in FirstLines, rest \in SeqsUpTo(LineSamples, MaxLines) }

InitParse ==
    /\ pc = "parse"
    /\ psOutput \in ParseInputs
    /\ psStatus \in { FailedS, RunningS }
    /\ parsed = << >>
    /\ flags = NoFlags
    /\ cfgFile = [ ok |-> FALSE, json |-> << >> ]
    /\ config = DefaultConfig
    /\ logWriter = StderrOnly
    /\ logFileOpen = FALSE
    /\ lastLog = NoLog
    /\ problematicJobs = << >>
    /\ results = NoResults
    /\ sendCalls = 0
    /\ sent = << >>
    /\ lastSent = << >>
    /\ email = NoEmail

\* one call of parseJobStatusOutput
Parse ==
    /\ pc = "parse"
    /\ parsed' = parseJobStatusOutput(psOutput, psStatus)
    /\ pc' = "parsed"
    /\ UNCHANGED << flags, cfgFile, config, logWriter, logFileOpen, lastLog,
                    problematicJobs, results, sendCalls, sent, lastSent, email,
                    psOutput, psStatus >>

NextParse == Parse

SpecParse == InitParse /\ [][NextParse]_vars

---------------------------------------------------------------------------
(* sendEmailAlert on its own: main at "if len(problematicJobs) > 0" with   *)
(* any merged sequence                                                     *)

Job(name, status, duration) ==
    [ Name |-> name, Status |-> status, StartTime |-> <<"t1">>, EndTime |-> <<"t2">>,
      Description |-> <<"d">>, Duration |-> duration ]

JobSamples ==
    { Job(<<"JobA">>, FailedS, << >>),
      Job(<<"JobB">>, FailedS, << >>),
      Job(<<"JobW">>, WarningS, << >>),
      Job(<<"JobX">>, <<"Success">>, << >>),
      Job(<<"JobR">>, RunningS, << >>),
      Job(<<"JobR">>, RunningS, <<"45", DOT, "231">>),
      Job(<<"JobS">>, RunningS, <<DOT, "5">>),
      Job(<<"JobT">>, RunningS, <<"1", DOT, "2", DOT, "3">>),
      Job(<<"JobU">>, RunningS, <<"45">>) }

InitDigest ==
    /\ pc = "notify"
    /\ problematicJobs \in SeqsUpTo(JobSamples, MaxJobs)
    /\ flags = NoFlags
    /\ cfgFile = [ ok |-> TRUE, json |-> ReadmeJson ]
    /\ config = Unmarshal(ReadmeJson)
    /\ logWriter = MultiWriter
    /\ logFileOpen = TRUE
    /\ lastLog = NoLog
    /\ results = NoResults
    /\ sendCalls = 0
    /\ sent = << >>
    /\ lastSent = << >>
    /\ email = NoEmail
    /\ psOutput = << >>
    /\ psStatus = << >>
    /\ parsed = << >>

NextDigest == Notify

SpecDigest == InitDigest /\ [][NextDigest]_vars

---------------------------------------------------------------------------
(* Properties of the polling loop (Spec) *)

CyclePcs   == { "failed", "warning", "running", "notify" }
EndPcs     == { "sleep", "panicked" }

\* what a category contributed: its jobs when its query succeeded
Contribution(field) ==
    IF results[field].state = "ok" THEN results[field].jobs ELSE << >>

Enabled(field) ==
    CASE field = "Failed"  -> config.MonitorFailedJobs
      [] field = "Warning" -> config.MonitorWarningJobs
      [] field = "Running" -> config.MonitorRunningJobs

Categories == { "Failed", "Warning", "Running" }

\* C1: a failed query of one category contributes nothing for that category
\* only: once the three blocks have run, every enabled category was queried
\* whatever the others returned (the cycle went on), and the merged set, the
\* one handed to sendEmailAlert, holds every record of every category whose
\* query succeeded.
C1_FailureIsolated ==
    pc \in { "notify" } \cup EndPcs =>
        /\ \A f \in Categories :
             /\ Enabled(f) <=> results[f].state \in { "ok", "error" }
             /\ results[f].state = "error" => results[f].jobs = << >>
        /\ problematicJobs =
             Contribution("Failed") \o Contribution("Warning") \o Contribution("Running")
        /\ sendCalls > 0 => sent = problematicJobs

C1_Witness ==
    /\ pc = "sleep"
    /\ sendCalls = 1
    /\ results.Warning.state = "error"
    /\ results.Failed.state = "ok" /\ Len(results.Failed.jobs) = 2
    /\ results.Running.state = "ok" /\ Len(results.Running.jobs) = 1
    /\ Len(sent) = 3

\* C2: sendEmailAlert is called at most once in a cycle: not at all before
\* the merged set is complete, never for an empty merged set, exactly once
\* for a non-empty one, and a failed dispatch leaves the cycle at its sleep
\* with that one call made.
C2_OneDispatchPerCycle ==
    /\ sendCalls \in { 0, 1 }
    /\ pc \in CyclePcs => sendCalls = 0
    /\ pc \in EndPcs => (sendCalls = 1 <=> problematicJobs # << >>)
    /\ lastLog.event = "email-error" => pc = "sleep" /\ sendCalls = 1

C2_Witness ==
    /\ pc = "sleep"
    /\ lastLog.event = "email-error"
    /\ sendCalls = 1
    /\ lastSent # << >>

\* C3: the polling loop has no terminal state: no input of a cycle, a
\* duration value included, ends the process.
C3_NoTerminalState == pc # "panicked"

\* C9: once setupLogging has succeeded, every event logged reaches the log
\* file as well as the console.
C9_LoggedToFile ==
    logFileOpen /\ lastLog.event # None =>
        /\ "file" \in lastLog.sinks
        /\ lastLog.sinks \cap Console # {}

---------------------------------------------------------------------------
(* Properties of the configuration (SpecConfig) *)

LoopPcs == { "checking" } \cup CyclePcs \cup EndPcs

FileHas(k) == cfgFile.ok /\ k \in DOMAIN cfgFile.json

\* a monitoring switch the file turns on
FileEnables(k) == FileHas(k) /\ cfgFile.json[k]

\* C7: in the polling loop the interval and the threshold are at least 1 and
\* some category is monitored, after either startup path and the command
\* line; an interval below 1 in the file has become 15, a threshold below 1
\* has become 120, and a file enabling no category has Failed monitoring on.
C7_ConfigFloors ==
    pc \in LoopPcs =>
        /\ config.CheckIntervalMinutes >= 1
        /\ config.LongRunningThreshold >= 1
        /\ \/ config.MonitorFailedJobs
           \/ config.MonitorWarningJobs
           \/ config.MonitorRunningJobs
        /\ FileHas("CheckIntervalMinutes") /\ cfgFile.json.CheckIntervalMinutes < 1
             => config.CheckIntervalMinutes = 15
        /\ FileHas("LongRunningThreshold") /\ cfgFile.json.LongRunningThreshold < 1
             => config.LongRunningThreshold = 120
        /\ cfgFile.ok /\ ~FileEnables("MonitorFailedJobs")
             /\ ~FileEnables("MonitorWarningJobs") /\ ~FileEnables("MonitorRunningJobs")
             => config.MonitorFailedJobs

C7_Witness ==
    /\ pc = "sleep"
    /\ flags.smtp # ""
    /\ FileHas("CheckIntervalMinutes") /\ cfgFile.json.CheckIntervalMinutes = 0
    /\ FileHas("LongRunningThreshold") /\ cfgFile.json.LongRunningThreshold = -5
    /\ FileHas("MonitorFailedJobs") /\ ~cfgFile.json.MonitorFailedJobs
    /\ ~FileHas("MonitorWarningJobs") /\ ~FileHas("MonitorRunningJobs")
    /\ config.CheckIntervalMinutes = 15
    /\ config.LongRunningThreshold = 120
    /\ config.MonitorFailedJobs

\* the settings the command line can give, each with its flag
CliFlag ==
    [ VeeamServerAddress |-> flags.veeamserver,
      EmailFrom          |-> flags.from,
      EmailPassword      |-> flags.password,
      EmailTo            |-> flags.to,
      SMTPServer         |-> flags.smtp ]

CliHas(k) == k \in DOMAIN CliFlag /\ CliFlag[k] # ""

\* the value a flag gives its setting: -to gives the one recipient
CliValue(k) == IF k = "EmailTo" THEN << CliFlag[k] >> ELSE CliFlag[k]

\* a value of the file that loadConfig's validation leaves as it is
FileKeeps(k) ==
    /\ FileHas(k)
    /\ k = "CheckIntervalMinutes" => cfgFile.json[k] >= 1
    /\ k = "LongRunningThreshold" => cfgFile.json[k] >= 1
    /\ k = "MonitorFailedJobs" =>
         \/ cfgFile.json[k]
         \/ FileEnables("MonitorWarningJobs")
         \/ FileEnables("MonitorRunningJobs")

\* the built-in defaults the specification names
BuiltIn ==
    [ VeeamPowerShellModule |-> "Veeam.Backup.PowerShell",
      CheckIntervalMinutes  |-> 15,
      MonitorFailedJobs     |-> TRUE,
      SMTPPort              |-> 25,
      LongRunningThreshold  |-> 120 ]

\* C8: the effective value of a setting is the command line's when given,
\* otherwise the file's when the file gives one, otherwise the built-in
\* default: a file that loads but omits the module name, the interval, the
\* Failed switch, the port or the threshold leaves the built-in default.
C8_Precedence ==
    pc \in LoopPcs =>
        \A k \in ConfigKeys :
            /\ CliHas(k) => config[k] = CliValue(k)
            /\ ~CliHas(k) /\ FileKeeps(k) => config[k] = cfgFile.json[k]
            /\ ~CliHas(k) /\ ~FileHas(k) /\ k \in DOMAIN BuiltIn
                 => config[k] = BuiltIn[k]

---------------------------------------------------------------------------
(* Properties of the parser (SpecParse), stated on the positions of the    *)
(* separators rather than by splitting                                     *)

Positions(s, c) == { i \in 1..Len(s) : s[i] = c }

\* the k-th smallest member of a set of positions
Kth(P, k) == CHOOSE p \in P : Cardinality({ q \in P : q < p }) = k - 1

\* the number of c-separated pieces of s, and the k-th of them
NPieces(s, c) == Cardinality(Positions(s, c)) + 1
Piece(s, c, k) ==
    LET P  == Positions(s, c)
        lo == IF k = 1 THEN 0 ELSE Kth(P, k - 1)
        hi == IF k = NPieces(s, c) THEN Len(s) + 1 ELSE Kth(P, k)
    IN  SubSeq(s, lo + 1, hi - 1)

Least(S)    == CHOOSE x \in S : \A y \in S : x <= y
Greatest(S) == CHOOSE x \in S : \A y \in S : x >= y

\* s from its first to its last symbol that Strip does not accept
Core(s, Strip(_)) ==
    LET keep == { i \in 1..Len(s) : ~Strip(s[i]) }
    IN  IF keep = {} THEN << >> ELSE SubSeq(s, Least(keep), Greatest(keep))

Unquoted(s) == Core(s, LAMBDA c : c = QUOTE)

\* the data rows: the lines after the first, surrounding white space aside
NDataRows == NPieces(psOutput, NL) - 1
DataRow(k) == Core(Piece(psOutput, NL, k + 1), IsSpace)

\* the rows with at least 5 comma-separated fields, in their order
KeptRows ==
    SelectSeq([ k \in 1..NDataRows |-> DataRow(k) ],
              LAMBDA row : NPieces(row, COMMA) >= 5)

RecordOf(row) ==
    [ Name        |-> Unquoted(Piece(row, COMMA, 1)),
      Status      |-> Unquoted(Piece(row, COMMA, 2)),
      StartTime   |-> Unquoted(Piece(row, COMMA, 3)),
      EndTime     |-> Unquoted(Piece(row, COMMA, 4)),
      Description |-> Unquoted(Piece(row, COMMA, 5)),
      Duration    |-> IF NPieces(row, COMMA) >= 6
                      THEN Unquoted(Piece(row, COMMA, 6)) ELSE << >> ]

\* C6: parseJobStatusOutput returns, in order, one record for each line
\* after the first that has at least 5 comma-separated fields, its first
\* five fields and, when present, the sixth without their surrounding
\* double quotes; a shorter row is skipped and the rows after it are still
\* parsed; an empty or all-blank text gives no record.
C6_ParsedRows ==
    pc = "parsed" =>
        /\ parsed = [ i \in 1..Len(KeptRows) |-> RecordOf(KeptRows[i]) ]
        /\ (\A i \in 1..Len(psOutput) : IsSpace(psOutput[i])) => parsed = << >>

\* a row of 6 fields, a row of 4 fields, then a row of 5 fields
C6_Witness ==
    /\ pc = "parsed"
    /\ NDataRows = 3
    /\ NPieces(DataRow(1), COMMA) = 6
    /\ NPieces(DataRow(2), COMMA) = 4
    /\ NPieces(DataRow(3), COMMA) = 5
    /\ Len(parsed) = 2
    /\ parsed[1].Duration = << "130", DOT, "5" >>
    /\ parsed[2].Name = << "JobA" >> /\ parsed[2].Duration = << >>

---------------------------------------------------------------------------
(* Properties of the digest (SpecDigest) *)

\* the lines of the body that are section headers
Headers == SelectSeq(email.body, LAMBDA l : l.line = "header")

\* the job blocks of the section with this title
BlocksOf(title) ==
    LET body == email.body
        at   == { i \in 1..Len(body) : body[i].line = "header" /\ body[i].section = title }
        last(i) == CHOOSE j \in i..Len(body) :
                      /\ \A m \in (i + 1)..j : body[m].line = "job"
                      /\ body[j + 1].line # "job"
    IN  IF at = {} THEN << >>
        ELSE LET i == CHOOSE x \in at : TRUE IN SubSeq(body, i + 1, last(i))

\* the records of one status, in input order
Having(status) == SelectSeq(sent, LAMBDA j : j.Status = status)

\* the duration up to its first period, the whole of it without one
UpToPeriod(d) ==
    LET n == CHOOSE m \in 0..Len(d) :
                /\ \A i \in 1..m : d[i] # DOT
                /\ m < Len(d) => d[m + 1] = DOT
    IN  SubSeq(d, 1, n)

SuffixFor(d) ==
    IF d = << >> THEN << >>
    ELSE << " (Running for " >> \o UpToPeriod(d) \o << " minutes)" >>

\* C4: every record of the Running group is rendered with the suffix
\* " (Running for N minutes)", N the duration up to its first period (all of
\* it without a period), no suffix for an empty duration, and rendering
\* never raises an error.
C4_DurationSuffix ==
    sendCalls = 1 =>
        /\ email.state = "built"
        /\ LET running == Having(RunningS)
               blocks  == BlocksOf("LONG-RUNNING JOBS")
           IN  /\ Len(blocks) = Len(running)
               /\ \A i \in 1..Len(running) :
                    blocks[i].Suffix = SuffixFor(running[i].Duration)

Titles == << "FAILED JOBS", "WARNING JOBS", "LONG-RUNNING JOBS" >>
TitleStatus == << FailedS, WarningS, RunningS >>

\* C5: for any merged sequence the body holds its sections in the order
\* FAILED JOBS, WARNING JOBS, LONG-RUNNING JOBS, a section exactly when a
\* record has its status, with the number of such records in its header and
\* the records in their input order.
C5_SectionOrder ==
    sendCalls = 1 =>
        /\ email.state = "built"
        /\ LET present == SelectSeq([ i \in 1..3 |-> i ],
                                    LAMBDA i : Having(TitleStatus[i]) # << >>)
           IN  /\ Len(Headers) = Len(present)
               /\ \A n \in 1..Len(present) :
                    /\ Headers[n].section = Titles[present[n]]
                    /\ Headers[n].count = Len(Having(TitleStatus[present[n]]))
        /\ \A i \in 1..3 :
             LET group  == Having(TitleStatus[i])
                 blocks == BlocksOf(Titles[i])
             IN  /\ Len(blocks) = Len(group)
                 /\ \A n \in 1..Len(group) :
                      /\ blocks[n].Name = group[n].Name
                      /\ blocks[n].Status = group[n].Status
                      /\ blocks[n].Description = group[n].Description

---------------------------------------------------------------------------
(* The email configuration (Spec) *)

\* config.EmailFrom == "" || len(config.EmailTo) == 0 || config.SMTPServer == "":
\* the condition of "Warning: Email configuration incomplete. Notifications
\* will not be sent."
EmailIncomplete(c) ==
    c.EmailFrom = "" \/ Len(c.EmailTo) = 0 \/ c.SMTPServer = ""

\* C11: with an incomplete email configuration (no sender, no recipient or
\* no SMTP server) no dispatch is attempted in any cycle, whatever jobs are
\* found.
C11_NoDispatchWhenIncomplete ==
    pc \in LoopPcs /\ EmailIncomplete(config) => sendCalls = 0

---------------------------------------------------------------------------
(* Job names that hold a comma (SpecNames).  ConvertTo-Csv quotes such a   *)
(* name, and the parser splits the line at every comma all the same.       *)

CommaName == << "Backup", COMMA, SP, "daily" >>

\* what the query for LastResult = status may return when a job of that
\* result is named "Backup, daily"
NamedStatusResults(status) ==
    { PsErr,
      PsOk(Text(<< StatusHeader, StatusRow(<<"JobA">>, status) >>)),
      PsOk(Text(<< StatusHeader, StatusRow(CommaName, status) >>)),
      PsOk(Text(<< StatusHeader, StatusRow(<<"JobA">>, status),
                   StatusRow(CommaName, status) >>)) }

NamedRunningResults ==
    { PsOk(<< >>),
      PsOk(Text(<< RunningHeader, RunningRow(<<"JobR">>, <<"130", DOT, "5">>) >>)),
      PsOk(Text(<< RunningHeader, RunningRow(CommaName, <<"130", DOT, "5">>) >>)) }

NamedFailedResults  == NamedStatusResults(FailedS)
NamedWarningResults == NamedStatusResults(WarningS)

InitNames == InitWith(FewFiles, FewFlags)

NextNames ==
    \/ SetupLogging
    \/ LoadConfig
    \/ OverrideFlags
    \/ BeginCheck
    \/ CheckFailed(NamedFailedResults)
    \/ CheckWarning(NamedWarningResults)
    \/ CheckRunning(NamedRunningResults)
    \/ Notify
    \/ Sleep

SpecNames == InitNames /\ [][NextNames]_vars

\* the status the records of a category's query are to carry
CategoryStatus ==
    [ Failed |-> FailedS, Warning |-> WarningS, Running |-> RunningS ]

RECURSIVE SumCounts(_)
SumCounts(hs) == IF hs = << >> THEN 0 ELSE Head(hs).count + SumCounts(Tail(hs))

\* C12: every record handed to sendEmailAlert has the status Failed,
\* Warning or Running, the one of the category whose query returned it, so
\* the count of the subject is the sum of the counts of the section headers
\* and a digest that was built has at least one section.
C12_StatusEnumerated ==
    sendCalls = 1 =>
        /\ \A i \in 1..Len(sent) :
             sent[i].Status \in { FailedS, WarningS, RunningS }
        /\ \A f \in Categories : \A i \in 1..Len(results[f].jobs) :
             results[f].jobs[i].Status = CategoryStatus[f]
        /\ email.state = "built" =>
             /\ email.subject = SumCounts(Headers)
             /\ Len(Headers) >= 1

===========================================================================
